---------------------------- MODULE Spec2Model ----------------------------
(***************************************************************************)
(* Model of the phone-picker repository: the recommendation builder of the *)
(* /api/recommendations route (buildRecommendations) and the page's        *)
(* platform-balanced selector (readTotal, isPolicy, pickByPlatform, Page). *)
(* JavaScript strings are TLA+ strings; TLC evaluates Len, SubSeq and \o   *)
(* on them, so startsWith, toLowerCase and template literals are computed  *)
(* character by character.                                                 *)
(***************************************************************************)
EXTENDS Integers, Sequences, FiniteSets, TLC

VARIABLES
    anchors,        \* the route's ANCHORS object (argument a of buildRecommendations)
    iphone,         \* the route's IPHONE_MODELS.models (argument iphone)
    apiRecs,        \* payload.recommendations computed by the route's GET
    search,         \* the page's searchParams
    total,          \* Page: const total = readTotal(searchParams)
    data,           \* Page: data.recommendations returned by getRecommendations
    error,          \* Page: the diagnostic returned by getRecommendations
    totalArg,       \* pickByPlatform: parameter total
    iosBase,        \* pickByPlatform: parameter iosBase
    androidBase,    \* pickByPlatform: parameter androidBase
    iosQueue,       \* pickByPlatform: local iosQueue
    androidQueue,   \* pickByPlatform: local androidQueue
    iosSel,         \* pickByPlatform: local iosSel
    andSel,         \* pickByPlatform: local andSel
    selected,       \* pickByPlatform: local selected
    result,         \* the object pickByPlatform returns
    pc,             \* position of the request being served
    outcome,        \* what the fetch of getRecommendations did ("none" before it)
    fallback,       \* the module-level FALLBACK.recommendations array of the page
    updatedAt,      \* the route's ANCHORS.updatedAt
    now,            \* Date.now() of the route's clock, in ms
    freshnessDays,  \* payload.freshnessDays computed by the route's GET
    iphoneR,        \* older page variant: the promise of safeFetch("/api/iphone-models")
    vendorsR,       \* older page variant: the promise of safeFetch("/api/us-vendors")
    legacy          \* older page variant: iphone, vendors and errors after Promise.all

\* the route's clock and freshness
clockVars == <<updatedAt, now, freshnessDays>>

\* the older page variant with two parallel requests
legacyVars == <<iphoneR, vendorsR, legacy>>

\* the current page and its request to the route
requestVars == <<anchors, iphone, apiRecs, search, total, data, error, totalArg, iosBase,
                 androidBase, iosQueue, androidQueue, iosSel, andSel, selected, result,
                 pc, outcome, fallback>>

vars == <<anchors, iphone, apiRecs, search, total, data, error, totalArg, iosBase,
          androidBase, iosQueue, androidQueue, iosSel, andSel, selected, result, pc,
          outcome, fallback, clockVars, legacyVars>>

-----------------------------------------------------------------------------
(* Bounds of the model *)

\* longest popularity list handed to buildRecommendations
MaxPop == 3

\* most runs of equal entries in a recommendation list served to the page
MaxBlocks == 2

\* longest run of equal entries in a recommendation list served to the page
MaxRun == 6

\* longest run of equal entries in a list selected from with per-platform counts
MaxRunPP == 3

\* longest array given as the total query parameter
MaxArr == 2

\* days after ANCHORS.updatedAt that the route's clock reaches
MaxClockDays == 3

\* longest list passed to pickByPlatform called with any arguments
MaxCallLen == 6

\* largest total passed to pickByPlatform called with any arguments
MaxCallTotal == 8

\* largest base count passed to pickByPlatform called with any arguments
MaxCallBase == 2

-----------------------------------------------------------------------------
(* JavaScript values *)

\* an optional string field: absent (undefined) or present with a value
None == [some |-> FALSE, v |-> ""]

Some(s) == [some |-> TRUE, v |-> s]

\* JavaScript truthiness of an optional string: undefined and "" are falsy
Truthy(o) == o.some /\ o.v # ""

Min(x, y) == IF x <= y THEN x ELSE y

Max(x, y) == IF x >= y THEN x ELSE y

UpperChars == <<"A","B","C","D","E","F","G","H","I","J","K","L","M",
                "N","O","P","Q","R","S","T","U","V","W","X","Y","Z">>

LowerChars == <<"a","b","c","d","e","f","g","h","i","j","k","l","m",
                "n","o","p","q","r","s","t","u","v","w","x","y","z">>

\* the lower-case form of one character
LowerChar(c) ==
    IF \E i \in 1..26 : UpperChars[i] = c
    THEN LowerChars[CHOOSE i \in 1..26 : UpperChars[i] = c]
    ELSE c

\* String.prototype.toLowerCase
RECURSIVE ToLowerCase(_)
ToLowerCase(s) ==
    IF Len(s) = 0 THEN ""
    ELSE LowerChar(SubSeq(s, 1, 1)) \o ToLowerCase(SubSeq(s, 2, Len(s)))

\* String.prototype.startsWith
StartsWith(s, p) == Len(s) >= Len(p) /\ SubSeq(s, 1, Len(p)) = p

\* a variant that always prints two decimals, as toFixed(2) does
NumberToString_Fixed2(h) ==
    ToString(h \div 100) \o "." \o ToString((h % 100) \div 10) \o ToString(h % 10)

\* Number-to-string conversion of a template literal, for a non-negative
\* number with at most two decimals, held in hundredths: 1603 is 16.03 and
\* prints "16.03", 1020 prints "10.2", 1000 prints "10"
NumberToString(h) ==
    LET ip == h \div 100
        fp == h % 100
    IN  IF fp = 0 THEN ToString(ip)
        ELSE IF fp % 10 = 0 THEN ToString(ip) \o "." \o ToString(fp \div 10)
        ELSE IF fp < 10 THEN ToString(ip) \o ".0" \o ToString(fp)
        ELSE ToString(ip) \o "." \o ToString(fp)

-----------------------------------------------------------------------------
(* The /api/recommendations route *)

\* type Recommendation
Rec(p, m, w) == [platform |-> p, model |-> m, why |-> w]

\* the route's static ANCHORS
ANCHORS ==
    [latestStandardIphone |-> "iPhone 16",
     latestStandardGalaxy |-> "Galaxy S25",
     iphoneMaxPrevYear    |-> "iPhone 15 Pro Max",
     galaxyUltraPrevYear  |-> "Galaxy S24 Ultra",
     pixelPrevGen         |-> "Pixel 8",
     pixelCurrentGen      |-> Some("Pixel 9")]

\* the route's static IPHONE_MODELS.models; share is held in hundredths
IPHONE_MODELS ==
    << [model |-> "iPhone 13",     share |-> 1603],
       [model |-> "iPhone 15",     share |-> 1020],
       [model |-> "iPhone 15 Pro", share |-> 1000] >>

\* a variant that creates the second and third entries in the other order
AnchorBase_Swapped(a) ==
    << Rec("iOS",     a.latestStandardIphone, "Policy: latest standard iPhone"),
       Rec("iOS",     a.iphoneMaxPrevYear,    "Policy: last year's iPhone Pro/Pro Max"),
       Rec("Android", a.latestStandardGalaxy, "Policy: latest standard Galaxy S"),
       Rec("Android", a.galaxyUltraPrevYear,  "Policy: last year's Samsung Galaxy S Ultra"),
       Rec("Android", a.pixelPrevGen,         "Policy: previous-generation Google Pixel") >>

\* the five entries buildRecommendations always creates
AnchorBase(a) ==
    << Rec("iOS",     a.latestStandardIphone, "Policy: latest standard iPhone"),
       Rec("Android", a.latestStandardGalaxy, "Policy: latest standard Galaxy S"),
       Rec("iOS",     a.iphoneMaxPrevYear,    "Policy: last year's iPhone Pro/Pro Max"),
       Rec("Android", a.galaxyUltraPrevYear,  "Policy: last year's Samsung Galaxy S Ultra"),
       Rec("Android", a.pixelPrevGen,         "Policy: previous-generation Google Pixel") >>

\* a variant that never pushes the optional entry
AnchorOptional_Never(a) == << >>

\* the entry pushed for the optional slot: if (a.pixelCurrentGen) base.push(...)
AnchorOptional(a) ==
    IF Truthy(a.pixelCurrentGen)
    THEN << Rec("Android", a.pixelCurrentGen.v, "Broaden Android coverage (stock Android)") >>
    ELSE << >>

\* base after the anchor part of buildRecommendations
AnchorEntries(a) == AnchorBase(a) \o AnchorOptional(a)

\* the entry pushed for one popularity record
PopularEntry(m) ==
    Rec("iOS", m.model, "Popular iPhone in US (~" \o NumberToString(m.share) \o "%)")

\* a variant that never finds a model in the seen-set
NotSeen_Always(seen, m) == TRUE

\* the test of the for loop: if (!seen.has(m.model))
NotSeen(seen, m) == m.model \notin seen

\* for (const m of iphone) { if (!seen.has(m.model)) { base.push(..); seen.add(..) } }
RECURSIVE AppendPopular(_, _, _)
AppendPopular(base, seen, ms) ==
    IF ms = <<>> THEN base
    ELSE LET m == Head(ms)
         IN  IF NotSeen(seen, m)
             THEN AppendPopular(Append(base, PopularEntry(m)), seen \cup {m.model}, Tail(ms))
             ELSE AppendPopular(base, seen, Tail(ms))

\* buildRecommendations(a, iphone)
buildRecommendations(a, ms) ==
    LET base == AnchorEntries(a)
        seen == { base[i].model : i \in 1..Len(base) }
    IN  AppendPopular(base, seen, ms)


-----------------------------------------------------------------------------
(* The page: readTotal *)

\* the JavaScript value undefined
Undefined == [t |-> "undefined", s |-> "", a |-> <<>>]

\* a JavaScript string value
Str(x) == [t |-> "string", s |-> x, a |-> <<>>]

\* a JavaScript array of strings
Arr(xs) == [t |-> "array", s |-> "", a |-> xs]

\* searchParams is undefined
NoParams == [defined |-> FALSE, total |-> Undefined]

\* searchParams is an object whose total property holds raw
Params(raw) == [defined |-> TRUE, total |-> raw]

\* the Number values: NaN, +Infinity, -Infinity, or the finite rational num/den
NaN == [kind |-> "nan", num |-> 0, den |-> 1]

PosInfinity == [kind |-> "inf", num |-> 1, den |-> 1]

NegInfinity == [kind |-> "inf", num |-> -1, den |-> 1]

Finite(n, d) == [kind |-> "fin", num |-> n, den |-> d]

Digits == <<"0","1","2","3","4","5","6","7","8","9">>

IsDigit(c) == \E i \in 1..10 : Digits[i] = c

DigitVal(c) == (CHOOSE i \in 1..10 : Digits[i] = c) - 1

RECURSIVE AllDigits(_)
AllDigits(s) ==
    Len(s) = 0 \/ (IsDigit(SubSeq(s, 1, 1)) /\ AllDigits(SubSeq(s, 2, Len(s))))

\* the value of a string of decimal digits ("" is 0)
RECURSIVE DigitsValue(_)
DigitsValue(s) ==
    IF Len(s) = 0 THEN 0
    ELSE 10 * DigitsValue(SubSeq(s, 1, Len(s) - 1)) + DigitVal(SubSeq(s, Len(s), Len(s)))

RECURSIVE Pow10(_)
Pow10(k) == IF k = 0 THEN 1 ELSE 10 * Pow10(k - 1)

\* StringToNumber strips leading and trailing white space first
RECURSIVE TrimSpaces(_)
TrimSpaces(s) ==
    IF Len(s) > 0 /\ SubSeq(s, 1, 1) = " " THEN TrimSpaces(SubSeq(s, 2, Len(s)))
    ELSE IF Len(s) > 0 /\ SubSeq(s, Len(s), Len(s)) = " "
         THEN TrimSpaces(SubSeq(s, 1, Len(s) - 1))
    ELSE s

\* position of the first "." of s, 0 when there is none
DotIndex(s) ==
    IF \E i \in 1..Len(s) : SubSeq(s, i, i) = "."
    THEN CHOOSE i \in 1..Len(s) :
            /\ SubSeq(s, i, i) = "."
            /\ \A j \in 1..(i - 1) : SubSeq(s, j, j) # "."
    ELSE 0

\* an unsigned decimal literal: "Infinity", digits, digits "." digits?, "." digits
\* (exponent, hexadecimal, octal and binary literals are not modelled: the
\* strings of the model never use them)
UnsignedNumber(s, sign) ==
    LET d  == DotIndex(s)
        ip == IF d = 0 THEN s ELSE SubSeq(s, 1, d - 1)
        fp == IF d = 0 THEN "" ELSE SubSeq(s, d + 1, Len(s))
    IN  IF s = "Infinity" THEN (IF sign = 1 THEN PosInfinity ELSE NegInfinity)
        ELSE IF Len(ip) + Len(fp) > 0 /\ AllDigits(ip) /\ AllDigits(fp)
             THEN Finite(sign * (DigitsValue(ip) * Pow10(Len(fp)) + DigitsValue(fp)),
                         Pow10(Len(fp)))
        ELSE NaN

\* Number(string): the empty or all-blank string is 0, an optional sign, then
\* an unsigned literal; anything else is NaN
StringToNumber(str) ==
    LET s == TrimSpaces(str)
    IN  IF Len(s) = 0 THEN Finite(0, 1)
        ELSE IF SubSeq(s, 1, 1) = "-" THEN UnsignedNumber(SubSeq(s, 2, Len(s)), -1)
        ELSE IF SubSeq(s, 1, 1) = "+" THEN UnsignedNumber(SubSeq(s, 2, Len(s)), 1)
        ELSE UnsignedNumber(s, 1)

\* Number(v) for v undefined or a string
Number(v) == IF v.t = "string" THEN StringToNumber(v.s) ELSE NaN

\* Number.isFinite
IsFinite(n) == n.kind = "fin"

\* a variant that rounds to the nearest integer, as Math.round does
Floor_Round(n) == (2 * n.num + n.den) \div (2 * n.den)

\* Math.floor of a finite number
Floor(n) == n.num \div n.den

\* const raw = params?.total
RawTotal(params) == IF params.defined THEN params.total ELSE Undefined

\* const v = Array.isArray(raw) ? raw[0] : raw
FirstOf(raw) ==
    IF raw.t = "array"
    THEN (IF Len(raw.a) > 0 THEN Str(raw.a[1]) ELSE Undefined)
    ELSE raw

\* the lower clamp bound of readTotal, and its default
MinTotal == 8

\* the upper clamp bound of readTotal
MaxTotal == 10

\* a variant that clamps from below only
readTotal_NoUpperClamp(params) ==
    LET n == Number(FirstOf(RawTotal(params)))
    IN  IF ~IsFinite(n) THEN MinTotal
        ELSE Max(MinTotal, Floor(n))

\* readTotal(params)
readTotal(params) ==
    LET n == Number(FirstOf(RawTotal(params)))
    IN  IF ~IsFinite(n) THEN MinTotal
        ELSE Max(MinTotal, Min(MaxTotal, Floor(n)))

-----------------------------------------------------------------------------
(* The page: getRecommendations *)

\* FALLBACK.recommendations of the page
FALLBACK ==
    << Rec("iOS",     "iPhone 16",         "Policy: latest standard iPhone"),
       Rec("Android", "Galaxy S25",        "Policy: latest standard Galaxy S"),
       Rec("iOS",     "iPhone 15 Pro Max", "Policy: last year's iPhone Pro/Pro Max"),
       Rec("Android", "Galaxy S24 Ultra",  "Policy: last year's Samsung Galaxy S Ultra"),
       Rec("Android", "Pixel 8",           "Policy: previous-generation Google Pixel"),
       Rec("Android", "Pixel 9",           "Broaden Android coverage (stock Android)"),
       Rec("iOS",     "iPhone 13",         "Popular iPhone in US (~16.03%)"),
       Rec("iOS",     "iPhone 15",         "Popular iPhone in US (~10.2%)"),
       Rec("iOS",     "iPhone 15 Pro",     "Popular iPhone in US (~10%)") >>

\* const url = `${getBaseUrl()}/api/recommendations` with no site URL configured
Url == "http://localhost:3000/api/recommendations"

\* String.prototype.slice(0, n)
Slice0(s, n) == SubSeq(s, 1, Min(n, Len(s)))

\* a variant whose diagnostic is the text of the body only
NotOkMessage_BodyOnly(status, body) == Slice0(body, 120)

\* the diagnostic of a response that is not ok (the arrow of the source text
\* is written "->")
NotOkMessage(status, body) ==
    "GET " \o Url \o " -> " \o ToString(status) \o " " \o Slice0(body, 120)

\* the diagnostic of a fetch or a parse that threw e
ThrownMessage(e) == "GET " \o Url \o " failed: " \o e

-----------------------------------------------------------------------------
(* The page: isPolicy and pickByPlatform *)

\* the why texts that occur in the model: the builder's, FALLBACK's (the same
\* texts), and those of served lists
KnownWhys ==
    { "Policy: latest standard iPhone", "Policy: latest standard Galaxy S",
      "Policy: last year's iPhone Pro/Pro Max",
      "Policy: last year's Samsung Galaxy S Ultra",
      "Policy: previous-generation Google Pixel",
      "Broaden Android coverage (stock Android)",
      "Popular iPhone in US (~16.03%)", "Popular iPhone in US (~10.2%)",
      "Popular iPhone in US (~10%)", "Popular iPhone in US (~7.05%)",
      "Policy: rule", "policy: rule", "Popular" }

\* rec.why.toLowerCase(), computed once for each why text
LowerWhy == [w \in KnownWhys |-> ToLowerCase(w)]

\* a variant that compares without lower-casing
isPolicy_CaseSensitive(rec) == StartsWith(rec.why, "Policy")

\* isPolicy(rec)
isPolicy(rec) == StartsWith(LowerWhy[rec.why], "policy")

\* recs.filter((r) => r.platform === p)
OfPlatform(recs, p) == SelectSeq(recs, LAMBDA r : r.platform = p)

\* [...all.filter(isPolicy), ...all.filter((r) => !isPolicy(r))]
PolicyFirst(all) ==
    SelectSeq(all, LAMBDA r : isPolicy(r)) \o SelectSeq(all, LAMBDA r : ~isPolicy(r))

\* const extra = total - (iosBase + androidBase)
Extra(t, ib, ab) == t - (ib + ab)

\* iosTarget after "if (extra > 0) iosTarget += 1"
IosTarget(t, ib, ab) == IF Extra(t, ib, ab) > 0 THEN ib + 1 ELSE ib

\* a variant that gives Android the first extra slot
AndroidTarget_First(t, ib, ab) == IF Extra(t, ib, ab) > 0 THEN ab + 1 ELSE ab

\* androidTarget after "if (extra > 1) androidTarget += 1"
AndroidTarget(t, ib, ab) == IF Extra(t, ib, ab) > 1 THEN ab + 1 ELSE ab

\* the elements queue.splice(0, n) removes and returns
SpliceTaken(queue, n) == SubSeq(queue, 1, Max(0, Min(n, Len(queue))))

\* what queue.splice(0, n) leaves in queue
SpliceLeft(queue, n) == SubSeq(queue, Max(0, Min(n, Len(queue))) + 1, Len(queue))

\* a variant that stops as soon as one queue is empty
FillGuard_Both(sel, t, iq, aq) == Len(sel) < t /\ (Len(iq) > 0 /\ Len(aq) > 0)

\* the test of the fill loop
FillGuard(sel, t, iq, aq) == Len(sel) < t /\ (Len(iq) > 0 \/ Len(aq) > 0)

\* selected after "if (iosQueue.length) selected.push(iosQueue.shift()!)"
AfterIosPush(sel, iq) == IF Len(iq) > 0 THEN Append(sel, Head(iq)) ELSE sel

\* a variant that never leaves the iteration early
Breaks_Never(sel, t) == FALSE

\* "if (selected.length >= total) break" ends the iteration before the Android push
Breaks(sel, t) == Len(sel) >= t

\* selected after the Android half of an iteration that did not break
AfterAndroidPush(sel, aq) == IF Len(aq) > 0 THEN Append(sel, Head(aq)) ELSE sel

\* a variant that reads the head of the queue without removing it
Shifted_Keep(q) == q

\* Array.prototype.shift on a queue that the guard found non-empty, else untouched
Shifted(q) == IF Len(q) > 0 THEN Tail(q) ELSE q


-----------------------------------------------------------------------------
(* Inputs *)

\* anchor sets: every slot holds its shipped value or a value that another
\* slot or a popularity record also holds; the optional slot may be absent
\* or the empty string
AnchorSets ==
    [latestStandardIphone : {"iPhone 16", "iPhone 15"},
     latestStandardGalaxy : {"Galaxy S25", "Galaxy S24 Ultra"},
     iphoneMaxPrevYear    : {"iPhone 15 Pro Max", "iPhone 16"},
     galaxyUltraPrevYear  : {"Galaxy S24 Ultra"},
     pixelPrevGen         : {"Pixel 8"},
     pixelCurrentGen      : {None, Some(""), Some("Pixel 9"), Some("Pixel 8")}]

\* popularity records: the shipped three, and one naming an anchor model
PopRecords ==
    { [model |-> "iPhone 13",     share |-> 1603],
      [model |-> "iPhone 15",     share |-> 1020],
      [model |-> "iPhone 15 Pro", share |-> 1000],
      [model |-> "iPhone 16",     share |-> 705] }

RECURSIVE SeqsUpTo(_, _)
SeqsUpTo(S, n) ==
    IF n = 0 THEN { <<>> }
    ELSE LET shorter == SeqsUpTo(S, n - 1)
         IN  shorter \cup { Append(q, x) : q \in shorter, x \in S }

PopLists == SeqsUpTo(PopRecords, MaxPop)

\* values of the total query parameter
TotalStrings ==
    { "", " ", "7", "8", "9", "10", "11", " 10 ", "+9", "-3", "9.7", "10.", ".5",
      "-0.5", ".", "abc", "9abc", "Infinity", "-Infinity", "0", "8.999", "1000" }

ArrayStrings == { "9", "10.5", "abc", "", "7" }

SearchValues ==
    { NoParams, Params(Undefined) }
      \cup { Params(Str(x)) : x \in TotalStrings }
      \cup { Params(Arr(xs)) : xs \in SeqsUpTo(ArrayStrings, MaxArr) }

\* the requests of the whole-program specification
PageSearches == { NoParams, Params(Str("9")), Params(Arr(<<"10.5", "abc">>)) }

\* the requests that reach each total
TotalSearches == { Params(Str("8")), Params(Str("9")), Params(Str("10")) }

Platforms == { "iOS", "Android" }

\* why texts of served entries: tagged, tagged in lower case, not tagged
ServedWhys == { "Policy: rule", "policy: rule", "Popular" }

ServedKinds == Platforms \X ServedWhys

Repeat(k, n) == [i \in 1..n |-> k]

\* the sequences of kinds made of at most b runs, each of at most r equal kinds
RECURSIVE RunLists(_, _)
RunLists(b, r) ==
    IF b = 0 THEN { <<>> }
    ELSE { Repeat(k, n) \o q : k \in ServedKinds, n \in 0..r, q \in RunLists(b - 1, r) }

\* the recommendation list of a sequence of kinds; the model names are distinct
Named(kinds) ==
    [i \in 1..Len(kinds) |-> Rec(kinds[i][1], "Model " \o ToString(i), kinds[i][2])]

ServedLists == { Named(q) : q \in RunLists(MaxBlocks, MaxRun) }

PerPlatformLists == { Named(q) : q \in RunLists(MaxBlocks, MaxRunPP) }

\* kinds that differ in the platform only
PlainKinds == Platforms \X { "Popular" }

\* the sequences of plain kinds made of at most b runs, each of at most r entries
RECURSIVE PlainRuns(_, _)
PlainRuns(b, r) ==
    IF b = 0 THEN { <<>> }
    ELSE { Repeat(k, n) \o q : k \in PlainKinds, n \in 0..r, q \in PlainRuns(b - 1, r) }

\* the recommendation lists served to a page whose fetch may fail
RenderLists == { Named(q) : q \in PlainRuns(MaxBlocks, MaxRun) }

\* total query parameters: absent, not a number, fractional, below and above
\* the range, in range, empty, an array
RenderSearches ==
    { NoParams, Params(Str("abc")), Params(Str("9.7")), Params(Str("7")),
      Params(Str("1000")), Params(Str("10")), Params(Str("")),
      Params(Arr(<<"9", "abc">>)) }

\* the recommendation list of a sequence of platforms: distinct model names,
\* every second entry tagged as policy
Tagged(ps) ==
    [i \in 1..Len(ps) |->
        Rec(ps[i], "Model " \o ToString(i),
            IF i % 2 = 0 THEN "Policy: rule" ELSE "Popular")]

\* the lists passed to pickByPlatform called with any arguments: every order
\* of platforms
CallLists == { Tagged(ps) : ps \in SeqsUpTo(Platforms, MaxCallLen) }

\* the per-platform counts a caller may ask for
PerPlatformCounts == 1..10

\* responses that are not ok
NotOkResponses == { <<500, "Internal Server Error">>, <<404, "">> }

\* what fetch or res.json() may throw
ThrownErrors == { "TypeError: fetch failed", "SyntaxError: Unexpected token" }

-----------------------------------------------------------------------------
(* The route: daysSince *)

\* the divisor of daysSince: the milliseconds of a day
DayMs == 86400000

\* a time value in milliseconds, held as whole days and milliseconds of the
\* day (0 <= ms < DayMs): the value is day * DayMs + ms
Instant(day, ms) == [day |-> day, ms |-> ms]

\* a < b on time values
Before(a, b) == a.day < b.day \/ (a.day = b.day /\ a.ms < b.ms)

\* what Date.parse returns: NaN, or a time value
NotADate == [valid |-> FALSE, at |-> Instant(0, 0)]

ParsedDate(i) == [valid |-> TRUE, at |-> i]

\* the s.substring(i - 1, j) of a string, positions counted from 1
Chars(s, i, j) == SubSeq(s, i, j)

IsLeap(y) == (y % 4 = 0 /\ y % 100 # 0) \/ y % 400 = 0

DaysInMonth(y, m) ==
    IF m = 2 THEN (IF IsLeap(y) THEN 29 ELSE 28)
    ELSE IF m \in { 4, 6, 9, 11 } THEN 30 ELSE 31

\* the day number of a calendar date, counted from 1970-01-01
DaysFromCivil(y, m, d) ==
    LET yy  == IF m <= 2 THEN y - 1 ELSE y
        era == yy \div 400
        yoe == yy - era * 400
        mp  == IF m > 2 THEN m - 3 ELSE m + 9
        doy == (153 * mp + 2) \div 5 + d - 1
        doe == yoe * 365 + yoe \div 4 - yoe \div 100 + doy
    IN  era * 146097 + doe - 719468

\* the date part YYYY-MM-DD of the ISO format is well formed
IsIsoDate(s) ==
    /\ Len(s) = 10
    /\ AllDigits(Chars(s, 1, 4)) /\ Chars(s, 5, 5) = "-"
    /\ AllDigits(Chars(s, 6, 7)) /\ Chars(s, 8, 8) = "-"
    /\ AllDigits(Chars(s, 9, 10))
    /\ DigitsValue(Chars(s, 6, 7)) \in 1..12
    /\ DigitsValue(Chars(s, 9, 10)) \in
          1..DaysInMonth(DigitsValue(Chars(s, 1, 4)), DigitsValue(Chars(s, 6, 7)))

\* the time part THH:mm:ss.sssZ of the ISO format is well formed
IsIsoTime(s) ==
    /\ Len(s) = 14
    /\ Chars(s, 1, 1) = "T" /\ AllDigits(Chars(s, 2, 3)) /\ Chars(s, 4, 4) = ":"
    /\ AllDigits(Chars(s, 5, 6)) /\ Chars(s, 7, 7) = ":"
    /\ AllDigits(Chars(s, 8, 9)) /\ Chars(s, 10, 10) = "."
    /\ AllDigits(Chars(s, 11, 13)) /\ Chars(s, 14, 14) = "Z"
    /\ DigitsValue(Chars(s, 2, 3)) <= 23
    /\ DigitsValue(Chars(s, 5, 6)) <= 59
    /\ DigitsValue(Chars(s, 8, 9)) <= 59

IsoDay(s) ==
    DaysFromCivil(DigitsValue(Chars(s, 1, 4)), DigitsValue(Chars(s, 6, 7)),
                  DigitsValue(Chars(s, 9, 10)))

IsoMs(s) ==
    ((DigitsValue(Chars(s, 2, 3)) * 60 + DigitsValue(Chars(s, 5, 6))) * 60
        + DigitsValue(Chars(s, 8, 9))) * 1000 + DigitsValue(Chars(s, 11, 13))

\* Date.parse on the ISO format, YYYY-MM-DD or YYYY-MM-DDTHH:mm:ss.sssZ, both
\* read as UTC; any other string is not a date
DateParse(s) ==
    IF Len(s) = 10 /\ IsIsoDate(s)
    THEN ParsedDate(Instant(IsoDay(s), 0))
    ELSE IF Len(s) = 24 /\ IsIsoDate(Chars(s, 1, 10)) /\ IsIsoTime(Chars(s, 11, 24))
    THEN ParsedDate(Instant(IsoDay(Chars(s, 1, 10)), IsoMs(Chars(s, 11, 24))))
    ELSE NotADate

\* ANCHORS.updatedAt of the route
UpdatedAt == "2025-08-15T00:00:00.000Z"

\* values of ANCHORS.updatedAt: the shipped one, other ISO timestamps, a date
\* without a time, and strings that are no dates
UpdatedAtValues ==
    { UpdatedAt, "2025-08-14T00:00:00.001Z", "2025-08-16T23:59:59.999Z",
      "2025-08-17", "2025-08-15T12:00:00.000Z", "", "not a date" }

\* Date.parse of the timestamps of the model
ParsedAt == [s \in UpdatedAtValues |-> DateParse(s)]

\* a variant that subtracts the current time from the timestamp
Elapsed_Reversed(t, at) ==
    LET ms == at.ms - t.ms
    IN  IF ms >= 0 THEN Instant(at.day - t.day, ms)
        ELSE Instant(at.day - t.day - 1, ms + DayMs)

\* Date.now() - Date.parse(iso), as whole days and a rest in 0..DayMs-1
Elapsed(t, at) ==
    LET ms == t.ms - at.ms
    IN  IF ms >= 0 THEN Instant(t.day - at.day, ms)
        ELSE Instant(t.day - at.day - 1, ms + DayMs)

\* Math.floor(x / 86_400_000) of a time difference
FloorDays(x) == x.day

\* a variant without the clamp
ClampDays_None(n) == n

\* Math.max(0, n)
ClampDays(n) == Max(0, n)

\* daysSince(iso) at the time t of the clock; NaN when iso does not parse
daysSince(iso, t) ==
    IF ~ParsedAt[iso].valid THEN NaN
    ELSE Finite(ClampDays(FloorDays(Elapsed(t, ParsedAt[iso].at))), 1)

\* the times the route's clock may show: the days around ANCHORS.updatedAt,
\* each at its start, one millisecond later, at noon and at its last millisecond
ClockInstants ==
    { Instant(d, ms) :
        d \in (ParsedAt[UpdatedAt].at.day - 2)..(ParsedAt[UpdatedAt].at.day + MaxClockDays),
        ms \in { 0, 1, 43200000, DayMs - 1 } }

-----------------------------------------------------------------------------
(* Actions *)

\* the base split the page passes to pickByPlatform
IosBaseDefault == 4

AndroidBaseDefault == 4

NoResult == [selected |-> <<>>, iosCount |-> 0, androidCount |-> 0]

\* Page: const total = readTotal(searchParams)
PageReadTotal ==
    /\ pc = "page"
    /\ total' = readTotal(search)
    /\ pc' = "fetch"
    /\ UNCHANGED <<outcome, fallback, clockVars, legacyVars>>
    /\ UNCHANGED <<anchors, iphone, apiRecs, search, data, error, totalArg, iosBase,
                   androidBase, iosQueue, androidQueue, iosSel, andSel, selected, result>>

\* the route's GET: recommendations: buildRecommendations(ANCHORS, IPHONE_MODELS.models)
ApiGET ==
    /\ pc = "fetch"
    /\ apiRecs' = buildRecommendations(anchors, iphone)
    /\ freshnessDays' = daysSince(updatedAt, now)
    /\ pc' = "respond"
    /\ UNCHANGED <<outcome, fallback, updatedAt, now, legacyVars>>
    /\ UNCHANGED <<anchors, iphone, search, total, data, error, totalArg, iosBase,
                   androidBase, iosQueue, androidQueue, iosSel, andSel, selected, result>>

\* getRecommendations: res.ok and the body parses
FetchOk ==
    /\ pc = "respond"
    /\ data' = apiRecs
    /\ error' = None
    /\ pc' = "fetched"
    /\ outcome' = "ok"
    /\ UNCHANGED <<fallback, clockVars, legacyVars>>
    /\ UNCHANGED <<anchors, iphone, apiRecs, search, total, totalArg, iosBase,
                   androidBase, iosQueue, androidQueue, iosSel, andSel, selected, result>>

\* getRecommendations: !res.ok
FetchNotOk ==
    /\ pc = "respond"
    /\ \E r \in NotOkResponses :
          error' = Some(NotOkMessage(r[1], r[2]))
    /\ data' = fallback
    /\ pc' = "fetched"
    /\ outcome' = "notOk"
    /\ UNCHANGED <<fallback, clockVars, legacyVars>>
    /\ UNCHANGED <<anchors, iphone, apiRecs, search, total, totalArg, iosBase,
                   androidBase, iosQueue, androidQueue, iosSel, andSel, selected, result>>

\* getRecommendations: fetch throws, or res.json() throws on the body
FetchThrows ==
    /\ pc \in { "fetch", "respond" }
    /\ \E e \in ThrownErrors :
          error' = Some(ThrownMessage(e))
    /\ data' = fallback
    /\ pc' = "fetched"
    /\ outcome' = "throws"
    /\ UNCHANGED <<fallback, clockVars, legacyVars>>
    /\ UNCHANGED <<anchors, iphone, apiRecs, search, total, totalArg, iosBase,
                   androidBase, iosQueue, androidQueue, iosSel, andSel, selected, result>>

\* Page: pickByPlatform(data.recommendations, total, 4, 4) is called
PagePick ==
    /\ pc = "fetched"
    /\ totalArg' = total
    /\ iosBase' = IosBaseDefault
    /\ androidBase' = AndroidBaseDefault
    /\ pc' = "pick"
    /\ UNCHANGED <<outcome, fallback, clockVars, legacyVars>>
    /\ UNCHANGED <<anchors, iphone, apiRecs, search, total, data, error,
                   iosQueue, androidQueue, iosSel, andSel, selected, result>>

\* a variant that splices the input list itself instead of the queues copied
\* from it; the input is the module-level array when the fallback is in use
PickStart_InPlace ==
    /\ pc = "pick"
    /\ LET iq == PolicyFirst(OfPlatform(data, "iOS"))
           aq == PolicyFirst(OfPlatform(data, "Android"))
           it == IosTarget(totalArg, iosBase, androidBase)
           at == AndroidTarget(totalArg, iosBase, androidBase)
       IN  /\ iosSel' = SpliceTaken(iq, it)
           /\ iosQueue' = SpliceLeft(iq, it)
           /\ andSel' = SpliceTaken(aq, at)
           /\ androidQueue' = SpliceLeft(aq, at)
           /\ selected' = SpliceTaken(iq, it) \o SpliceTaken(aq, at)
           /\ data' = SpliceLeft(iq, it) \o SpliceLeft(aq, at)
           /\ fallback' = IF outcome = "ok" THEN fallback
                          ELSE SpliceLeft(iq, it) \o SpliceLeft(aq, at)
    /\ pc' = "fill"
    /\ UNCHANGED <<outcome, clockVars, legacyVars>>
    /\ UNCHANGED <<anchors, iphone, apiRecs, search, total, error, totalArg,
                   iosBase, androidBase, result>>

\* pickByPlatform up to the fill loop: the queues, the targets, the base selection
PickStart ==
    /\ pc = "pick"
    /\ LET iq == PolicyFirst(OfPlatform(data, "iOS"))
           aq == PolicyFirst(OfPlatform(data, "Android"))
           it == IosTarget(totalArg, iosBase, androidBase)
           at == AndroidTarget(totalArg, iosBase, androidBase)
       IN  /\ iosSel' = SpliceTaken(iq, it)
           /\ iosQueue' = SpliceLeft(iq, it)
           /\ andSel' = SpliceTaken(aq, at)
           /\ androidQueue' = SpliceLeft(aq, at)
           /\ selected' = SpliceTaken(iq, it) \o SpliceTaken(aq, at)
    /\ pc' = "fill"
    /\ UNCHANGED <<outcome, fallback, clockVars, legacyVars>>
    /\ UNCHANGED <<anchors, iphone, apiRecs, search, total, data, error, totalArg,
                   iosBase, androidBase, result>>

\* one iteration of the fill loop
FillStep ==
    /\ pc = "fill"
    /\ FillGuard(selected, totalArg, iosQueue, androidQueue)
    /\ LET s1 == AfterIosPush(selected, iosQueue)
       IN  /\ iosQueue' = Shifted(iosQueue)
           /\ IF Breaks(s1, totalArg)
              THEN selected' = s1 /\ androidQueue' = androidQueue
              ELSE selected' = AfterAndroidPush(s1, androidQueue)
                   /\ androidQueue' = Shifted(androidQueue)
    /\ UNCHANGED <<outcome, fallback, clockVars, legacyVars>>
    /\ UNCHANGED <<anchors, iphone, apiRecs, search, total, data, error, totalArg,
                   iosBase, androidBase, iosSel, andSel, result, pc>>

\* the fill loop is left and pickByPlatform returns
PickReturn ==
    /\ pc = "fill"
    /\ ~FillGuard(selected, totalArg, iosQueue, androidQueue)
    /\ result' = [selected |-> selected, iosCount |-> Len(iosSel),
                  androidCount |-> Len(andSel)]
    /\ pc' = "done"
    /\ UNCHANGED <<outcome, fallback, clockVars, legacyVars>>
    /\ UNCHANGED <<anchors, iphone, apiRecs, search, total, data, error, totalArg,
                   iosBase, androidBase, iosQueue, androidQueue, iosSel, andSel, selected>>

-----------------------------------------------------------------------------
(* Specifications *)

-----------------------------------------------------------------------------
(* The older page variant: safeFetch and the two parallel requests *)

\* a dataset of an endpoint: the month and the list of models or vendors
Dataset(month, list) == [month |-> month, list |-> list]

NoDataset == Dataset("", <<>>)

FALLBACK_IPHONE == Dataset("2025-08", IPHONE_MODELS)

FALLBACK_VENDORS ==
    Dataset("2025-08",
            << [vendor |-> "Apple",    share |-> 5724],
               [vendor |-> "Samsung",  share |-> 2225],
               [vendor |-> "Google",   share |-> 621],
               [vendor |-> "Motorola", share |-> 368] >>)

IphonePath == "/api/iphone-models"

VendorsPath == "/api/us-vendors"

\* const url = `${getBaseUrl()}${path}`, no environment variable set
SafeUrl(path) == "http://localhost:3000" \o path

\* what fetch resolves to: res.ok, res.status, the text of the body and the
\* value it parses to
Response(ok, status, body, json) ==
    [ok |-> ok, status |-> status, body |-> body, json |-> json]

NoResponse == Response(FALSE, 0, "", NoDataset)

\* a call of safeFetch: its position, the response it holds, what its fetch
\* did, and the data and error of the object it resolves to
Call(st, res, oc, d, e) ==
    [state |-> st, res |-> res, outcome |-> oc, data |-> d, error |-> e]

\* safeFetch has not been called
NotCalled == Call("none", NoResponse, "none", NoDataset, None)

\* safeFetch awaits fetch(url)
Pending == Call("pending", NoResponse, "none", NoDataset, None)

\* await fetch(url) has resolved to res
safeFetchResponse(c, res) == Call("response", res, "none", NoDataset, None)

\* `GET ${url} -> ${res.status} ${body.slice(0, 120)}` (the arrow of the source
\* text is written "->")
SafeNotOkMessage(path, status, body) ==
    "GET " \o SafeUrl(path) \o " -> " \o ToString(status) \o " " \o Slice0(body, 120)

\* `GET ${url} failed: ${String(e)}`
SafeThrownMessage(path, e) == "GET " \o SafeUrl(path) \o " failed: " \o e

\* the rest of the try block once res is held: the two return statements
safeFetchBody(c, path, fallbackData) ==
    IF ~c.res.ok
    THEN Call("settled", c.res, "notOk", fallbackData,
              Some(SafeNotOkMessage(path, c.res.status, c.res.body)))
    ELSE Call("settled", c.res, "ok", c.res.json, None)

\* the catch block: fetch, res.text() or res.json() threw e
safeFetchCatch(c, path, fallbackData, e) ==
    Call("settled", c.res, "throws", fallbackData, Some(SafeThrownMessage(path, e)))

\* Array.prototype.filter(Boolean) on optional strings
RECURSIVE FilterBoolean(_)
FilterBoolean(os) ==
    IF os = <<>> THEN <<>>
    ELSE (IF Truthy(Head(os)) THEN << Head(os).v >> ELSE <<>>) \o FilterBoolean(Tail(os))

\* a variant that lists the vendors diagnostic first
ErrorsOf_VendorsFirst(ir, vr) == FilterBoolean(<< vr.error, ir.error >>)

\* const errors = [iphoneR.error, vendorsR.error].filter(Boolean)
ErrorsOf(ir, vr) == FilterBoolean(<< ir.error, vr.error >>)

\* the older page variant before Promise.all has resolved
NoLegacy ==
    [joined |-> FALSE, iphone |-> NoDataset, vendors |-> NoDataset, errors |-> <<>>]

\* datasets the iPhone-models endpoint may serve
IphoneDatasets ==
    { FALLBACK_IPHONE,
      Dataset("2025-09", << [model |-> "iPhone 16", share |-> 705] >>),
      Dataset("2025-09", <<>>) }

\* datasets the vendors endpoint may serve
VendorDatasets ==
    { FALLBACK_VENDORS,
      Dataset("2025-09", << [vendor |-> "Apple", share |-> 5800] >>),
      Dataset("2025-09", <<>>) }

\* the responses of an endpoint serving the datasets ds
ResponsesOf(ds) ==
    { Response(TRUE, 200, "", d) : d \in ds }
      \cup { Response(FALSE, r[1], r[2], NoDataset) : r \in NotOkResponses }

\* safeFetch("/api/iphone-models", FALLBACK_IPHONE): fetch resolves
IphoneResponds ==
    /\ iphoneR.state = "pending"
    /\ \E res \in ResponsesOf(IphoneDatasets) :
          iphoneR' = safeFetchResponse(iphoneR, res)
    /\ UNCHANGED <<requestVars, clockVars, vendorsR, legacy>>

\* safeFetch("/api/iphone-models", FALLBACK_IPHONE): the body is read and the
\* call returns
IphoneReturns ==
    /\ iphoneR.state = "response"
    /\ iphoneR' = safeFetchBody(iphoneR, IphonePath, FALLBACK_IPHONE)
    /\ UNCHANGED <<requestVars, clockVars, vendorsR, legacy>>

\* safeFetch("/api/iphone-models", FALLBACK_IPHONE): fetch or the reading of
\* the body throws
IphoneThrows ==
    /\ iphoneR.state \in { "pending", "response" }
    /\ \E e \in ThrownErrors :
          iphoneR' = safeFetchCatch(iphoneR, IphonePath, FALLBACK_IPHONE, e)
    /\ UNCHANGED <<requestVars, clockVars, vendorsR, legacy>>

\* safeFetch("/api/us-vendors", FALLBACK_VENDORS): fetch resolves
VendorsResponds ==
    /\ vendorsR.state = "pending"
    /\ \E res \in ResponsesOf(VendorDatasets) :
          vendorsR' = safeFetchResponse(vendorsR, res)
    /\ UNCHANGED <<requestVars, clockVars, iphoneR, legacy>>

\* safeFetch("/api/us-vendors", FALLBACK_VENDORS): the body is read and the
\* call returns
VendorsReturns ==
    /\ vendorsR.state = "response"
    /\ vendorsR' = safeFetchBody(vendorsR, VendorsPath, FALLBACK_VENDORS)
    /\ UNCHANGED <<requestVars, clockVars, iphoneR, legacy>>

\* safeFetch("/api/us-vendors", FALLBACK_VENDORS): fetch or the reading of the
\* body throws
VendorsThrows ==
    /\ vendorsR.state \in { "pending", "response" }
    /\ \E e \in ThrownErrors :
          vendorsR' = safeFetchCatch(vendorsR, VendorsPath, FALLBACK_VENDORS, e)
    /\ UNCHANGED <<requestVars, clockVars, iphoneR, legacy>>

\* Promise.all resolves once both calls have returned; the page reads
\* iphoneR.data, vendorsR.data and the errors
LegacyJoin ==
    /\ iphoneR.state = "settled"
    /\ vendorsR.state = "settled"
    /\ ~legacy.joined
    /\ legacy' = [joined |-> TRUE,
                  iphone |-> iphoneR.data,
                  vendors |-> vendorsR.data,
                  errors |-> ErrorsOf(iphoneR, vendorsR)]
    /\ UNCHANGED <<requestVars, clockVars, iphoneR, vendorsR>>

\* the page has been rendered and is requested again: every value of the
\* request is new, the module-level data stays
PageNextRequest ==
    /\ pc = "done"
    /\ search' \in PageSearches
    /\ apiRecs' = <<>>
    /\ total' = 0
    /\ data' = <<>>
    /\ error' = None
    /\ outcome' = "none"
    /\ totalArg' = 0
    /\ iosBase' = 0
    /\ androidBase' = 0
    /\ iosQueue' = <<>>
    /\ androidQueue' = <<>>
    /\ iosSel' = <<>>
    /\ andSel' = <<>>
    /\ selected' = <<>>
    /\ result' = NoResult
    /\ pc' = "page"
    /\ UNCHANGED <<anchors, iphone, fallback, clockVars, legacyVars>>

\* time passes on the route's clock between two requests
ClockAdvances ==
    /\ pc = "fetch"
    /\ \E t \in ClockInstants :
          /\ Before(now, t)
          /\ now' = t
    /\ UNCHANGED <<requestVars, updatedAt, freshnessDays, legacyVars>>

\* the route has answered and is sent the next request
ApiNextRequest ==
    /\ pc = "respond"
    /\ pc' = "fetch"
    /\ UNCHANGED <<anchors, iphone, apiRecs, search, total, data, error, totalArg,
                   iosBase, androidBase, iosQueue, androidQueue, iosSel, andSel,
                   selected, result, outcome, fallback, clockVars, legacyVars>>

\* the module-level FALLBACK of the page as loaded, no fetch made yet
ModuleLoaded ==
    /\ fallback = FALLBACK
    /\ outcome = "none"

\* the route's clock is not consulted
ClockIdle ==
    /\ updatedAt = UpdatedAt
    /\ now = ParsedAt[UpdatedAt].at
    /\ freshnessDays = Finite(0, 1)

\* the older page variant is not running
LegacyIdle ==
    /\ iphoneR = NotCalled
    /\ vendorsR = NotCalled
    /\ legacy = NoLegacy

Locals ==
    /\ iosQueue = <<>>
    /\ androidQueue = <<>>
    /\ iosSel = <<>>
    /\ andSel = <<>>
    /\ selected = <<>>
    /\ result = NoResult

\* the whole program: a page request, served by the route built from any
\* anchor set and popularity list
Init ==
    /\ anchors \in AnchorSets
    /\ iphone \in PopLists
    /\ search \in PageSearches
    /\ apiRecs = <<>>
    /\ total = 0
    /\ data = <<>>
    /\ error = None
    /\ totalArg = 0
    /\ iosBase = 0
    /\ androidBase = 0
    /\ Locals
    /\ ModuleLoaded
    /\ ClockIdle
    /\ LegacyIdle
    /\ pc = "page"

Next ==
    \/ PageReadTotal
    \/ ApiGET
    \/ FetchOk
    \/ FetchNotOk
    \/ FetchThrows
    \/ PagePick
    \/ PickStart
    \/ FillStep
    \/ PickReturn

Spec == Init /\ [][Next]_vars

\* readTotal on every value of the total query parameter
InitRead ==
    /\ anchors = ANCHORS
    /\ iphone = IPHONE_MODELS
    /\ search \in SearchValues
    /\ apiRecs = <<>>
    /\ total = 0
    /\ data = <<>>
    /\ error = None
    /\ totalArg = 0
    /\ iosBase = 0
    /\ androidBase = 0
    /\ Locals
    /\ ModuleLoaded
    /\ ClockIdle
    /\ LegacyIdle
    /\ pc = "page"

NextRead == PageReadTotal

SpecRead == InitRead /\ [][NextRead]_vars

\* the page after readTotal, served any recommendation list in an ok response
InitPick ==
    /\ anchors = ANCHORS
    /\ iphone = IPHONE_MODELS
    /\ search \in TotalSearches
    /\ total = readTotal(search)
    /\ apiRecs \in ServedLists
    /\ data = <<>>
    /\ error = None
    /\ totalArg = 0
    /\ iosBase = 0
    /\ androidBase = 0
    /\ Locals
    /\ ModuleLoaded
    /\ ClockIdle
    /\ LegacyIdle
    /\ pc = "respond"

NextPick ==
    \/ FetchOk
    \/ PagePick
    \/ PickStart
    \/ FillStep
    \/ PickReturn

SpecPick == InitPick /\ [][NextPick]_vars

\* pickByPlatform called with per-platform counts: iosBase = iosN,
\* androidBase = androidN, total = iosN + androidN
InitPerPlatform ==
    /\ anchors = ANCHORS
    /\ iphone = IPHONE_MODELS
    /\ search = NoParams
    /\ total = 0
    /\ apiRecs = <<>>
    /\ data \in PerPlatformLists
    /\ error = None
    /\ iosBase \in PerPlatformCounts
    /\ androidBase \in PerPlatformCounts
    /\ totalArg = iosBase + androidBase
    /\ Locals
    /\ ModuleLoaded
    /\ ClockIdle
    /\ LegacyIdle
    /\ pc = "pick"

NextPerPlatform ==
    \/ PickStart
    \/ FillStep
    \/ PickReturn

SpecPerPlatform == InitPerPlatform /\ [][NextPerPlatform]_vars


\* the page after readTotal on any kind of total parameter, with every outcome
\* of the fetch
InitPage ==
    /\ anchors = ANCHORS
    /\ iphone = IPHONE_MODELS
    /\ search \in RenderSearches
    /\ total = readTotal(search)
    /\ apiRecs \in RenderLists
    /\ data = <<>>
    /\ error = None
    /\ totalArg = 0
    /\ iosBase = 0
    /\ androidBase = 0
    /\ Locals
    /\ ModuleLoaded
    /\ ClockIdle
    /\ LegacyIdle
    /\ pc = "respond"

NextPage ==
    \/ FetchOk
    \/ FetchNotOk
    \/ FetchThrows
    \/ PagePick
    \/ PickStart
    \/ FillStep
    \/ PickReturn

SpecPage == InitPage /\ [][NextPage]_vars

\* the page is not serving a request of the current variant
RequestIdle ==
    /\ anchors = ANCHORS
    /\ iphone = IPHONE_MODELS
    /\ search = NoParams
    /\ apiRecs = <<>>
    /\ total = 0
    /\ data = <<>>
    /\ error = None
    /\ totalArg = 0
    /\ iosBase = 0
    /\ androidBase = 0
    /\ Locals
    /\ ModuleLoaded
    /\ pc = "idle"

\* the older page variant: both requests are made at once and complete in
\* any order
InitLegacy ==
    /\ RequestIdle
    /\ ClockIdle
    /\ iphoneR = Pending
    /\ vendorsR = Pending
    /\ legacy = NoLegacy

NextLegacy ==
    \/ IphoneResponds
    \/ IphoneReturns
    \/ IphoneThrows
    \/ VendorsResponds
    \/ VendorsReturns
    \/ VendorsThrows
    \/ LegacyJoin

SpecLegacy == InitLegacy /\ [][NextLegacy]_vars

\* the data fetch of either page variant: getRecommendations against the
\* route, or the two safeFetch calls
InitFetch ==
    \/ /\ anchors = ANCHORS
       /\ iphone \in PopLists
       /\ search = NoParams
       /\ apiRecs = <<>>
       /\ total = readTotal(search)
       /\ data = <<>>
       /\ error = None
       /\ totalArg = 0
       /\ iosBase = 0
       /\ androidBase = 0
       /\ Locals
       /\ ModuleLoaded
       /\ ClockIdle
       /\ LegacyIdle
       /\ pc = "fetch"
    \/ InitLegacy

NextFetch ==
    \/ ApiGET
    \/ FetchOk
    \/ FetchNotOk
    \/ FetchThrows
    \/ NextLegacy

SpecFetch == InitFetch /\ [][NextFetch]_vars

\* the route answering request after request while its clock advances, for
\* any value of ANCHORS.updatedAt
InitClock ==
    /\ anchors = ANCHORS
    /\ iphone = IPHONE_MODELS
    /\ search = NoParams
    /\ apiRecs = <<>>
    /\ total = 0
    /\ data = <<>>
    /\ error = None
    /\ totalArg = 0
    /\ iosBase = 0
    /\ androidBase = 0
    /\ Locals
    /\ ModuleLoaded
    /\ LegacyIdle
    /\ updatedAt \in UpdatedAtValues
    /\ now \in ClockInstants
    /\ freshnessDays = Finite(0, 1)
    /\ pc = "fetch"

NextClock ==
    \/ ApiGET
    \/ ClockAdvances
    \/ ApiNextRequest

SpecClock == InitClock /\ [][NextClock]_vars

\* the page requested again and again, served by the route built from the
\* shipped anchors, with or without the optional Pixel, and any popularity list
InitFrame ==
    /\ anchors \in { ANCHORS, [ANCHORS EXCEPT !.pixelCurrentGen = None] }
    /\ iphone \in PopLists
    /\ search \in PageSearches
    /\ apiRecs = <<>>
    /\ total = 0
    /\ data = <<>>
    /\ error = None
    /\ totalArg = 0
    /\ iosBase = 0
    /\ androidBase = 0
    /\ Locals
    /\ ModuleLoaded
    /\ ClockIdle
    /\ LegacyIdle
    /\ pc = "page"

NextFrame ==
    \/ Next
    \/ PageNextRequest

SpecFrame == InitFrame /\ [][NextFrame]_vars

\* pickByPlatform called with any list, any total and any base split
InitCall ==
    /\ anchors = ANCHORS
    /\ iphone = IPHONE_MODELS
    /\ search = NoParams
    /\ total = 0
    /\ apiRecs = <<>>
    /\ data \in CallLists
    /\ error = None
    /\ totalArg \in 0..MaxCallTotal
    /\ iosBase \in 0..MaxCallBase
    /\ androidBase \in 0..MaxCallBase
    /\ Locals
    /\ ModuleLoaded
    /\ ClockIdle
    /\ LegacyIdle
    /\ pc = "pick"

NextCall ==
    \/ PickStart
    \/ FillStep
    \/ PickReturn

SpecCall == InitCall /\ [][NextCall]_vars

\* the body of pickByPlatform is synchronous code: it runs on until it returns
SpecCallFair == SpecCall /\ WF_vars(NextCall)

\* the page as shipped: the route serves its static ANCHORS and IPHONE_MODELS,
\* the request carries any total parameter, the fetch has any outcome
InitShipped ==
    /\ anchors = ANCHORS
    /\ iphone = IPHONE_MODELS
    /\ search \in SearchValues
    /\ apiRecs = <<>>
    /\ total = 0
    /\ data = <<>>
    /\ error = None
    /\ totalArg = 0
    /\ iosBase = 0
    /\ androidBase = 0
    /\ Locals
    /\ ModuleLoaded
    /\ ClockIdle
    /\ LegacyIdle
    /\ pc = "page"

\* the iteration of the fill loop is left out: on the shipped lists the loop
\* condition is false when the loop is reached, which C21 checks
NextShipped ==
    \/ PageReadTotal
    \/ ApiGET
    \/ FetchOk
    \/ FetchNotOk
    \/ FetchThrows
    \/ PagePick
    \/ PickStart
    \/ PickReturn

SpecShipped == InitShipped /\ [][NextShipped]_vars

-----------------------------------------------------------------------------
(* Vocabulary of the properties *)

\* the route has just computed its recommendations
Built == pc = "respond"

\* the anchor slots in the documented order, as <<platform, model, present>>
SlotOrder(a) ==
    << <<"iOS",     a.latestStandardIphone, TRUE>>,
       <<"Android", a.latestStandardGalaxy, TRUE>>,
       <<"iOS",     a.iphoneMaxPrevYear,    TRUE>>,
       <<"Android", a.galaxyUltraPrevYear,  TRUE>>,
       <<"Android", a.pixelPrevGen,         TRUE>>,
       <<"Android", a.pixelCurrentGen.v,
         a.pixelCurrentGen.some /\ a.pixelCurrentGen.v # "">> >>

\* the slots that hold a value
PresentSlots(a) == SelectSeq(SlotOrder(a), LAMBDA x : x[3])

\* the number of entries of recs on platform p
CountOf(recs, p) == Cardinality({ i \in 1..Len(recs) : recs[i].platform = p })

\* the sequence of model names of recs
ModelsOf(recs) == [i \in 1..Len(recs) |-> recs[i].model]

\* the k-th smallest element of a finite set of numbers
KthOf(S, k) == CHOOSE x \in S : Cardinality({ y \in S : y < x }) = k - 1

-----------------------------------------------------------------------------
(* Properties of buildRecommendations *)

\* C1: no two entries of the list returned by buildRecommendations have the
\* same model name, for every anchor set and every popularity list.
C1_UniqueModels ==
    Built =>
      \A i, j \in 1..Len(apiRecs) :
        i # j => apiRecs[i].model # apiRecs[j].model

\* C6: the output of buildRecommendations starts with one entry for each
\* anchor slot that holds a value, in the fixed slot order and with the slot's
\* platform, and every entry after them is derived from a popularity record.
C6_AnchorHead ==
    Built =>
        LET head == PresentSlots(anchors)
        IN  /\ Len(apiRecs) >= Len(head)
            /\ \A i \in 1..Len(head) :
                  /\ apiRecs[i].platform = head[i][1]
                  /\ apiRecs[i].model = head[i][2]
            /\ \A i \in (Len(head) + 1)..Len(apiRecs) :
                  /\ StartsWith(apiRecs[i].why, "Popular iPhone in US")
                  /\ \E k \in 1..Len(iphone) : iphone[k].model = apiRecs[i].model

\* C6 witness: a built list whose optional slot is absent and that holds
\* data-derived entries after its five anchor entries.
C6_Witness ==
    /\ Built
    /\ anchors.pixelCurrentGen = None
    /\ Len(apiRecs) > 5

\* C7: every entry created from an anchor slot, the optional pixelCurrentGen
\* entry included, has a why that begins with "Policy: " and is classified
\* as a policy entry by isPolicy.
C7_AnchorsArePolicy ==
    Built =>
        \A i \in 1..Len(PresentSlots(anchors)) :
            /\ StartsWith(apiRecs[i].why, "Policy: ")
            /\ isPolicy(apiRecs[i])

\* C8: after the anchor entries come exactly the entries of the popularity
\* records whose model name occurs neither among the anchor entries nor in
\* an earlier record, in record order, each on iOS with the why text
\* "Popular iPhone in US (~<share>%)".
C8_PopularTail ==
    Built =>
        LET h     == Len(PresentSlots(anchors))
            heads == { PresentSlots(anchors)[i][2] : i \in 1..h }
            fresh == { k \in 1..Len(iphone) :
                          /\ iphone[k].model \notin heads
                          /\ \A j \in 1..(k - 1) : iphone[j].model # iphone[k].model }
        IN  /\ Len(apiRecs) = h + Cardinality(fresh)
            /\ \A i \in 1..Cardinality(fresh) :
                  LET m == iphone[KthOf(fresh, i)]
                  IN  apiRecs[h + i] =
                        [platform |-> "iOS", model |-> m.model,
                         why |-> "Popular iPhone in US (~" \o NumberToString(m.share) \o "%)"]

\* C8 witness: a built list where one record repeats an anchor model, one
\* repeats an earlier record, and one is appended with the share 10.2.
C8_Witness ==
    /\ Built
    /\ \E k \in 1..Len(iphone) :
          iphone[k].model \in { PresentSlots(anchors)[i][2] : i \in 1..Len(PresentSlots(anchors)) }
    /\ \E j, k \in 1..Len(iphone) : j < k /\ iphone[j].model = iphone[k].model
    /\ \E i \in 1..Len(apiRecs) : apiRecs[i].why = "Popular iPhone in US (~10.2%)"


-----------------------------------------------------------------------------
(* Properties of pickByPlatform *)

\* pickByPlatform has returned
Returned == pc = "done"

\* positions i < j of the returned list that hold entries of one platform
SamePlatformPairs ==
    { p \in (1..Len(result.selected)) \X (1..Len(result.selected)) :
        /\ p[1] < p[2]
        /\ result.selected[p[1]].platform = result.selected[p[2]].platform }

\* the number of entries the base selection contributed
BaseCount == result.iosCount + result.androidCount

\* C2: for a total in 8..10 with base split 4/4, pickByPlatform returns exactly
\* min(total, N) entries, N the length of the input list, and fewer than
\* total only when every entry of the input has been selected.
C2_ExactCount ==
    Returned =>
        /\ Len(result.selected) = Min(totalArg, Len(data))
        /\ Len(result.selected) < totalArg =>
              \A i \in 1..Len(data) :
                  \E j \in 1..Len(result.selected) : result.selected[j] = data[i]

\* C2 witness: total 10 on a list of more than 10 entries whose iOS pool is
\* short, so that the fill loop supplies part of the 10 returned entries.
C2_Witness ==
    /\ Returned
    /\ totalArg = 10
    /\ Len(data) > 10
    /\ Len(result.selected) = 10
    /\ BaseCount < 10

\* C3: when the iOS pool and the Android pool each hold at least their
\* target, the returned list holds 4 iOS and 4 Android entries for total 8,
\* 5 and 4 for total 9, 5 and 5 for total 10.
C3_Split ==
    Returned =>
        LET ti == IF totalArg = 8 THEN 4 ELSE 5
            ta == IF totalArg = 10 THEN 5 ELSE 4
        IN  (totalArg \in 8..10 /\ CountOf(data, "iOS") >= ti /\ CountOf(data, "Android") >= ta)
               => /\ CountOf(result.selected, "iOS") = ti
                  /\ CountOf(result.selected, "Android") = ta

\* C3 witness: total 9 on a list with more than 5 iOS and more than 4
\* Android entries.
C3_Witness ==
    /\ Returned
    /\ totalArg = 9
    /\ CountOf(data, "iOS") > 5
    /\ CountOf(data, "Android") > 4
    /\ CountOf(result.selected, "iOS") = 5

\* C4 as stated: within each platform, every returned entry whose why begins
\* with "Policy" comes before every returned entry whose why does not.
C4_CapitalPolicyFirst ==
    Returned =>
        \A p \in SamePlatformPairs :
            ~ ( /\ ~StartsWith(result.selected[p[1]].why, "Policy")
                /\ StartsWith(result.selected[p[2]].why, "Policy") )

\* C4 amended: within each platform, every returned entry whose why begins
\* with "policy" in any letter case comes before every returned entry whose
\* why does not, in the base selection and in the entries the fill loop adds.
C4_PolicyFirst ==
    Returned =>
        \A p \in SamePlatformPairs :
            ~ ( /\ ~StartsWith(LowerWhy[result.selected[p[1]].why], "policy")
                /\ StartsWith(LowerWhy[result.selected[p[2]].why], "policy") )

\* C4 witness: the fill loop has added a non-policy entry of a platform after
\* a lower-case tagged policy entry of that platform.
C4_Witness ==
    /\ Returned
    /\ \E p \in SamePlatformPairs :
          /\ p[2] > BaseCount
          /\ result.selected[p[1]].why = "policy: rule"
          /\ result.selected[p[2]].why = "Popular"

\* C5: the shipped anchors and popularity records build the nine documented
\* entries in the documented order, and total 8 with base 4/4 on that list
\* returns the four iOS entries followed by the four Android entries.
C5_EndToEnd ==
    (anchors = ANCHORS /\ iphone = IPHONE_MODELS) =>
        /\ Built =>
              [i \in 1..Len(apiRecs) |-> <<apiRecs[i].model, apiRecs[i].platform>>] =
                 << <<"iPhone 16", "iOS">>, <<"Galaxy S25", "Android">>,
                    <<"iPhone 15 Pro Max", "iOS">>, <<"Galaxy S24 Ultra", "Android">>,
                    <<"Pixel 8", "Android">>, <<"Pixel 9", "Android">>,
                    <<"iPhone 13", "iOS">>, <<"iPhone 15", "iOS">>,
                    <<"iPhone 15 Pro", "iOS">> >>
        /\ (Returned /\ error = None /\ totalArg = 8 /\ iosBase = 4 /\ androidBase = 4) =>
              ModelsOf(result.selected) =
                 << "iPhone 16", "iPhone 15 Pro Max", "iPhone 13", "iPhone 15",
                    "Galaxy S25", "Galaxy S24 Ultra", "Pixel 8", "Pixel 9" >>

\* C5 witness: the page has selected 8 devices from the list the route built
\* from the shipped data.
C5_Witness ==
    /\ Returned
    /\ anchors = ANCHORS
    /\ iphone = IPHONE_MODELS
    /\ error = None
    /\ data = apiRecs
    /\ totalArg = 8

\* C9: called with per-platform counts (iosBase = iosN, androidBase =
\* androidN, total = iosN + androidN), pickByPlatform returns at most iosN iOS
\* and at most androidN Android entries, never more than the pool holds.
C9_NoCrossFill ==
    Returned =>
        /\ CountOf(result.selected, "iOS") <= Min(iosBase, CountOf(data, "iOS"))
        /\ CountOf(result.selected, "Android") <= Min(androidBase, CountOf(data, "Android"))

-----------------------------------------------------------------------------
(* Properties of readTotal *)

\* what JavaScript's Number gives for each string of the model: whether the
\* result is a finite number and, if so, its floor
NumberTable ==
    [ x \in TotalStrings \cup ArrayStrings |->
        CASE x \in { "", " ", "0" }            -> <<TRUE, 0>>
          [] x = "7"                            -> <<TRUE, 7>>
          [] x \in { "8", "8.999" }             -> <<TRUE, 8>>
          [] x \in { "9", "+9", "9.7" }         -> <<TRUE, 9>>
          [] x \in { "10", " 10 ", "10.", "10.5" } -> <<TRUE, 10>>
          [] x = "11"                           -> <<TRUE, 11>>
          [] x = "1000"                         -> <<TRUE, 1000>>
          [] x = "-3"                           -> <<TRUE, -3>>
          [] x = ".5"                           -> <<TRUE, 0>>
          [] x = "-0.5"                         -> <<TRUE, -1>>
          [] OTHER                              -> <<FALSE, 0>> ]

\* the total query parameter is absent
TotalAbsent ==
    \/ ~search.defined
    \/ search.total.t = "undefined"
    \/ search.total.t = "array" /\ search.total.a = <<>>

\* the string readTotal converts: the parameter, or the first element of an array
TotalString ==
    IF search.total.t = "array" THEN search.total.a[1] ELSE search.total.s

\* C10: readTotal returns an integer in {8, 9, 10}: 8 when the total parameter
\* is absent or does not parse to a finite number, otherwise the floored number
\* clamped to the nearest bound of [8, 10]; the first element of an array is
\* the one used.
C10_ReadTotal ==
    pc = "fetch" =>
        /\ total \in { 8, 9, 10 }
        /\ TotalAbsent => total = 8
        /\ ~TotalAbsent =>
              LET n == NumberTable[TotalString]
              IN  total = IF ~n[1] THEN 8
                          ELSE IF n[2] < 8 THEN 8
                          ELSE IF n[2] > 10 THEN 10
                          ELSE n[2]

\* C10 witness: an array whose first element is the fractional "10.5" and
\* whose second is not a number has been read as 10.
C10_Witness ==
    /\ pc = "fetch"
    /\ search = Params(Arr(<<"10.5", "abc">>))
    /\ total = 10

-----------------------------------------------------------------------------
(* Properties of the page *)

\* C11: whatever the total query parameter and whatever the fetch did, the
\* list the page renders (selected) has at most 10 entries, and at least 8
\* when the recommendation list in use has at least 8.
C11_RenderedSize ==
    Returned =>
        /\ Len(result.selected) <= 10
        /\ Len(data) >= 8 => Len(result.selected) >= 8

\* C11 witness: total=1000 on an ok response with more than 10 entries renders
\* exactly 10.
C11_Witness ==
    /\ Returned
    /\ search = Params(Str("1000"))
    /\ outcome = "ok"
    /\ Len(data) > 10
    /\ Len(result.selected) = 10

-----------------------------------------------------------------------------
(* Properties of the data fetch *)

\* getRecommendations has returned to the page
Fetched == pc = "fetched"

\* the safeFetch calls of the older page variant that have returned
SettledCalls ==
    { c \in { <<iphoneR, FALLBACK_IPHONE>>, <<vendorsR, FALLBACK_VENDORS>> } :
        c[1].state = "settled" }

\* C12: the data fetch always resolves. When fetch threw, the status was not
\* ok or the body did not parse, it resolves to the static fallback dataset
\* and a non-empty diagnostic; on an ok response that parses, to the response
\* data and no diagnostic. This holds of getRecommendations and of safeFetch.
C12_FetchResolves ==
    /\ Fetched =>
          /\ outcome \in { "ok", "notOk", "throws" }
          /\ outcome = "ok" => data = apiRecs /\ error = None
          /\ outcome # "ok" => data = FALLBACK /\ error.some /\ Len(error.v) > 0
    /\ \A c \in SettledCalls :
          /\ c[1].outcome \in { "ok", "notOk", "throws" }
          /\ c[1].outcome = "notOk" => c[1].res # NoResponse
          /\ ~c[1].res.ok => c[1].outcome # "ok"
          /\ c[1].outcome = "ok" => c[1].res.ok /\ c[1].data = c[1].res.json /\ c[1].error = None
          /\ c[1].outcome # "ok" =>
                c[1].data = c[2] /\ c[1].error.some /\ Len(c[1].error.v) > 0

\* C12 witness: a 404 response with an empty body has been turned into the
\* fallback dataset and a diagnostic.
C12_Witness ==
    /\ Fetched
    /\ outcome = "notOk"
    /\ data = FALLBACK
    /\ error = Some(NotOkMessage(404, ""))

-----------------------------------------------------------------------------
(* Properties of daysSince *)

\* the time values of the timestamps of the model, as whole days since
\* 1970-01-01 and milliseconds of the day
KnownInstants ==
    [s \in { UpdatedAt, "2025-08-14T00:00:00.001Z", "2025-08-16T23:59:59.999Z",
             "2025-08-17", "2025-08-15T12:00:00.000Z" } |->
        CASE s = UpdatedAt                  -> Instant(20315, 0)
          [] s = "2025-08-14T00:00:00.001Z" -> Instant(20314, 1)
          [] s = "2025-08-16T23:59:59.999Z" -> Instant(20316, 86399999)
          [] s = "2025-08-17"               -> Instant(20317, 0)
          [] s = "2025-08-15T12:00:00.000Z" -> Instant(20315, 43200000)]

\* the time value k days after t
DaysAfter(t, k) == Instant(t.day + k, t.ms)

\* the route has just computed freshnessDays from a string that is a timestamp
FreshnessComputed == pc = "respond" /\ updatedAt \in DOMAIN KnownInstants

\* C13: for every timestamp and every current time, daysSince is an integer
\* k >= 0: 0 when the timestamp is the current time or later, otherwise the
\* floor of the elapsed time over 86,400,000 ms (k days <= elapsed < k + 1 days).
C13_DaysSince ==
    FreshnessComputed =>
        LET t == KnownInstants[updatedAt]
            k == freshnessDays.num
        IN  /\ IsFinite(freshnessDays)
            /\ freshnessDays.den = 1
            /\ k >= 0
            /\ ~Before(t, now) => k = 0
            /\ Before(t, now) =>
                  /\ ~Before(now, DaysAfter(t, k))
                  /\ Before(now, DaysAfter(t, k + 1))

\* C13 witness: one millisecond short of three days after the shipped
\* timestamp, daysSince is 2.
C13_Witness ==
    /\ FreshnessComputed
    /\ updatedAt = UpdatedAt
    /\ now = Instant(20317, 86399999)
    /\ freshnessDays = Finite(2, 1)

\* C14: for a fixed timestamp, a later evaluation of daysSince never gives
\* less than an earlier one.
C14_Monotone ==
    [][ (updatedAt \in DOMAIN KnownInstants) =>
            (freshnessDays.num <= freshnessDays'.num) ]_vars

\* C14 witness: daysSince was 1 when last evaluated and the clock has since
\* passed the third day after the timestamp.
C14_Witness ==
    /\ pc = "fetch"
    /\ updatedAt \in DOMAIN KnownInstants
    /\ freshnessDays = Finite(1, 1)
    /\ ~Before(now, DaysAfter(KnownInstants[updatedAt], 3))

-----------------------------------------------------------------------------
(* Frame of pickByPlatform and buildRecommendations *)

\* pickByPlatform has been called with data and has not yet returned
Picking == pc \in { "pick", "fill" }

\* C15: pickByPlatform and buildRecommendations leave their inputs as they
\* were: over any sequence of page requests the module-level
\* FALLBACK.recommendations stays the list it was at load time, the list
\* passed to pickByPlatform is not changed by the call, and the anchors and
\* the popularity list of the route are not changed by any step.
C15_InputsUnchanged ==
    /\ [](fallback = FALLBACK)
    /\ [][ /\ anchors' = anchors
           /\ iphone' = iphone
           /\ Picking => data' = data ]_vars

\* C15 witness: a request served from the fallback has been selected from,
\* and the module-level list is still the static one.
C15_Witness ==
    /\ Returned
    /\ outcome = "throws"
    /\ data = fallback
    /\ fallback = FALLBACK
    /\ Len(result.selected) = 9

-----------------------------------------------------------------------------
(* Order of the selection *)

\* s is the list of the first Len(s) entries of q
IsPrefix(s, q) == Len(s) <= Len(q) /\ s = SubSeq(q, 1, Len(s))

\* the queue of platform p: its policy entries in input order, then its other
\* entries in input order
QueueOf(recs, p) ==
    SelectSeq(recs, LAMBDA r : r.platform = p /\ isPolicy(r))
        \o SelectSeq(recs, LAMBDA r : r.platform = p /\ ~isPolicy(r))

\* the entries of platform p in the returned list, in order
SelectedOf(p) == SelectSeq(result.selected, LAMBDA r : r.platform = p)

\* C16: for each platform, its entries in the returned list, read in order,
\* are a prefix of its queue (policy entries in input order, then the others
\* in input order); so no entry of the input is selected twice and every
\* selected entry is an entry of the input.
C16_QueuePrefix ==
    Returned =>
        /\ \A p \in Platforms : IsPrefix(SelectedOf(p), QueueOf(data, p))
        /\ \A i, j \in 1..Len(result.selected) :
              i # j => result.selected[i] # result.selected[j]
        /\ \A i \in 1..Len(result.selected) :
              \E k \in 1..Len(data) : data[k] = result.selected[i]

\* C16 witness: the fill loop has added entries, and the iOS entries returned
\* begin with a policy entry that stands after a non-policy iOS entry in the
\* input.
C16_Witness ==
    /\ Returned
    /\ Len(result.selected) > BaseCount
    /\ Len(SelectedOf("iOS")) >= 2
    /\ isPolicy(SelectedOf("iOS")[1])
    /\ ~isPolicy(SelectedOf("iOS")[Len(SelectedOf("iOS"))])
    /\ \E k \in 1..Len(data) : data[k].platform = "iOS" /\ ~isPolicy(data[k])
          /\ \E m \in (k + 1)..Len(data) : data[m] = SelectedOf("iOS")[1]


\* q without its first n entries
Rest(q, n) == SubSeq(q, n + 1, Len(q))

\* the first n entries of q, all of q when it has fewer
Take(q, n) == SubSeq(q, 1, Min(n, Len(q)))

\* the entries of two queues taken in turn, the first queue first; a queue
\* that has run out is passed over
RECURSIVE Alternate(_, _)
Alternate(iq, aq) ==
    IF iq = <<>> /\ aq = <<>> THEN <<>>
    ELSE (IF iq # <<>> THEN << Head(iq) >> ELSE <<>>)
            \o (IF aq # <<>> THEN << Head(aq) >> ELSE <<>>)
            \o Alternate(Rest(iq, 1), Rest(aq, 1))

\* C17: the returned list is the base selection (the selected iOS prefix,
\* then the selected Android prefix) followed by the fill; the fill takes the
\* rest of the two queues in turn, iOS first, passing over an empty queue,
\* and stops when the list has total entries.
C17_BaseThenFill ==
    Returned =>
        LET iq   == QueueOf(data, "iOS")
            aq   == QueueOf(data, "Android")
            base == iosSel \o andSel
        IN  /\ IsPrefix(iosSel, iq)
            /\ IsPrefix(andSel, aq)
            /\ result.selected =
                  base \o Take(Alternate(Rest(iq, Len(iosSel)), Rest(aq, Len(andSel))),
                               Max(0, totalArg - Len(base)))

\* C17 witness: after the base selection the fill has appended an iOS, an
\* Android and again an iOS entry.
C17_Witness ==
    /\ Returned
    /\ Len(result.selected) >= BaseCount + 3
    /\ BaseCount >= 2
    /\ result.selected[BaseCount + 1].platform = "iOS"
    /\ result.selected[BaseCount + 2].platform = "Android"
    /\ result.selected[BaseCount + 3].platform = "iOS"

-----------------------------------------------------------------------------
(* The counts returned with the selection *)

\* C18: for every input list and every total in 8..10, the iosCount and the
\* androidCount that pickByPlatform returns (and the page shows) are the
\* numbers of iOS and of Android entries in the returned list, so that
\* iosCount + androidCount = selected.length.
C18_CountsMatch ==
    Returned =>
        /\ result.iosCount = CountOf(result.selected, "iOS")
        /\ result.androidCount = CountOf(result.selected, "Android")
        /\ result.iosCount + result.androidCount = Len(result.selected)

-----------------------------------------------------------------------------
(* Termination of the fill loop *)

\* the condition of the while loop, on the current state
LoopCondition ==
    Len(selected) < totalArg /\ (Len(iosQueue) > 0 \/ Len(androidQueue) > 0)

\* the entries left in the two queues
QueuedLeft == Len(iosQueue) + Len(androidQueue)

\* C19: the fill loop terminates for every list, total and base split: while
\* selected.length < total and a queue is non-empty an iteration runs and
\* removes at least one entry from a queue; as soon as selected.length >=
\* total or both queues are empty the loop is left; pickByPlatform returns.
C19_FillTerminates ==
    /\ [][ (pc = "fill") =>
              IF LoopCondition
              THEN pc' = "fill" /\ QueuedLeft' < QueuedLeft
              ELSE pc' = "done" ]_vars
    /\ <>(pc = "done")

\* C19 witness: the loop has run at least two iterations and a queue still
\* holds entries.
C19_Witness ==
    /\ pc = "fill"
    /\ Len(selected) >= Len(iosSel) + Len(andSel) + 3
    /\ QueuedLeft > 0

-----------------------------------------------------------------------------
(* The two parallel requests of the older page variant *)

\* the request of call c failed: its fetch threw, its status was not ok, or
\* the reading of its body threw
Failed(c) == c.outcome \in { "notOk", "throws" }

\* what the page should use for a call: the fetched data, or the fallback of
\* its endpoint when the request failed
DataFor(c, fallbackData) == IF Failed(c) THEN fallbackData ELSE c.res.json

\* the diagnostic of a failed call, none for one that succeeded
DiagnosticOf(c) == IF Failed(c) THEN << c.error.v >> ELSE <<>>

\* C20: whatever the two requests did and in whichever order they completed,
\* the page uses the fallback for exactly the endpoints that failed and the
\* fetched data for the others, its errors are one diagnostic per failed
\* endpoint with the iPhone-models one first, and a call that has returned
\* keeps its result whatever the other call does.
C20_ParallelFetch ==
    /\ [](legacy.joined =>
            /\ legacy.iphone = DataFor(iphoneR, FALLBACK_IPHONE)
            /\ legacy.vendors = DataFor(vendorsR, FALLBACK_VENDORS)
            /\ legacy.errors = DiagnosticOf(iphoneR) \o DiagnosticOf(vendorsR)
            /\ Failed(iphoneR) =>
                  StartsWith(legacy.errors[1], "GET " \o SafeUrl(IphonePath) \o " ")
            /\ Failed(vendorsR) =>
                  StartsWith(legacy.errors[Len(legacy.errors)],
                             "GET " \o SafeUrl(VendorsPath) \o " "))
    /\ [][ /\ (iphoneR.state = "settled") => (iphoneR' = iphoneR)
           /\ (vendorsR.state = "settled") => (vendorsR' = vendorsR) ]_vars

\* C20 witness: the vendors request threw while the iPhone-models request
\* brought data other than the fallback; the page holds that data, the
\* vendors fallback and one diagnostic.
C20_Witness ==
    /\ legacy.joined
    /\ iphoneR.outcome = "ok"
    /\ vendorsR.outcome = "throws"
    /\ legacy.iphone # FALLBACK_IPHONE
    /\ legacy.iphone = iphoneR.res.json
    /\ legacy.vendors = FALLBACK_VENDORS
    /\ Len(legacy.errors) = 1

-----------------------------------------------------------------------------
(* The fallback against the route *)

\* the devices the shipped data gives for each total, in order
ShippedSelection ==
    [t \in 8..10 |->
        IF t = 8
        THEN << "iPhone 16", "iPhone 15 Pro Max", "iPhone 13", "iPhone 15",
                "Galaxy S25", "Galaxy S24 Ultra", "Pixel 8", "Pixel 9" >>
        ELSE << "iPhone 16", "iPhone 15 Pro Max", "iPhone 13", "iPhone 15",
                "iPhone 15 Pro",
                "Galaxy S25", "Galaxy S24 Ultra", "Pixel 8", "Pixel 9" >>]

\* C21: the recommendation list of the page's FALLBACK is the list that
\* buildRecommendations gives for the route's static ANCHORS and
\* IPHONE_MODELS (same entries, platforms, why texts, order), so for every
\* total in 8..10 the page selects the same devices in the same order
\* whether the fetch succeeded or the fallback is used.
C21_FallbackIsBuilt ==
    /\ Built => apiRecs = FALLBACK
    /\ Fetched => data = FALLBACK
    /\ pc = "fill" => ~FillGuard(selected, totalArg, iosQueue, androidQueue)
    /\ Returned =>
          /\ totalArg \in 8..10
          /\ ModelsOf(result.selected) = ShippedSelection[totalArg]

\* C21 witness: the fetch succeeded, the list it brought is the fallback
\* list, and total 9 has selected from it.
C21_Witness ==
    /\ Returned
    /\ outcome = "ok"
    /\ data = apiRecs
    /\ data = fallback
    /\ totalArg = 9
    /\ Len(result.selected) = 9

=============================================================================
